---- MODULE Spec2Model ----
(***************************************************************************)
(* The troubleshooting commands of the tournaments cog                     *)
(* (src/tournaments/troubleshooting.py) for ONE guild (tenant), as a state *)
(* machine.  Every command is a coroutine: a step of the model is the code *)
(* a coroutine runs between two awaits, and the coroutines of several      *)
(* commands and of the background loop interleave at their awaits.         *)
(*                                                                         *)
(* The Tournament object, its background loop, only_phase and              *)
(* _restore_tournament live in other files of the cog; they are modelled   *)
(* from the written specification of the cog.                              *)
(***************************************************************************)
EXTENDS Integers, Sequences, FiniteSets, TLC

VARIABLES
    tournaments,  \* self.tournaments[guild.id]: index into aggs, 0 = no key
    aggs,         \* every Tournament object ever built, by identity
    store,        \* self.data.guild(guild).tournament: <<>> or <<snapshot>>
    procs,        \* the command invocations, in the order they were issued
    nticks        \* scheduled loop iterations started so far

vars == <<tournaments, aggs, store, procs, nticks>>

\* ---------------------------------------------------------------- bounds
MaxOps == 2
MaxTicks == 1

\* ------------------------------------------------------------ the bracket
\* What the bracket service reports for this tournament.
RemoteParticipants == {1, 2}
RemoteInfo == [name |-> "renamed", limit |-> 16]

Match(st, channel, afkoff) == [st |-> st, channel |-> channel, afkoff |-> afkoff]

\* Two matches of one bracket branch: the second can be played once the
\* first is over.
RemoteMatches == <<Match("pending", 0, FALSE), Match("pending", 0, FALSE)>>

Phases == {"pending", "register", "checkin", "awaiting", "ongoing", "finished"}

NextPhase(ph) ==
    CASE ph = "pending" -> "register"
      [] ph = "register" -> "checkin"
      [] ph = "checkin" -> "awaiting"
      [] ph = "awaiting" -> "ongoing"
      [] OTHER -> "finished"

\* ------------------------------------------------------------ aggregates
Tournament(phase, participants, matches) ==
    [phase |-> phase, participants |-> participants, matches |-> matches,
     name |-> "original", limit |-> 8, participant_role |-> TRUE,
     task |-> (phase = "ongoing"), tick |-> 0]

\* Tournament.to_dict, as written by Tournament.save.
Snapshot(ag) ==
    [phase |-> ag.phase, participants |-> ag.participants, matches |-> ag.matches,
     name |-> ag.name, limit |-> ag.limit, participant_role |-> ag.participant_role]

\* Tournament.from_saved_data; the loop is started when the phase is ongoing.
FromSnapshot(s) ==
    [phase |-> s.phase, participants |-> s.participants, matches |-> s.matches,
     name |-> s.name, limit |-> s.limit, participant_role |-> s.participant_role,
     task |-> (s.phase = "ongoing"), tick |-> 0]

start_loop_task(ag) == [ag EXCEPT !.task = TRUE]

\* A stop that cancels the iteration in flight where it is suspended.
stop_loop_task_cancel(ag) ==
    LET ms == ag.matches
    IN [ag EXCEPT !.task = FALSE, !.tick = 0,
                  !.matches = [i \in DOMAIN ms |->
                      IF ms[i].st = "ongoing" THEN [ms[i] EXCEPT !.afkoff = TRUE]
                      ELSE ms[i]]]

\* A stop that leaves the AFK check of every match as it is.
stop_loop_task_keepafk(ag) == [ag EXCEPT !.task = FALSE]

\* Pausing disables the AFK check of the matches that are ongoing; the
\* iteration in flight, if any, is left to complete.
stop_loop_task(ag) ==
    LET ms == ag.matches
    IN [ag EXCEPT !.task = FALSE,
                  !.matches = [i \in DOMAIN ms |->
                      IF ms[i].st = "ongoing" THEN [ms[i] EXCEPT !.afkoff = TRUE]
                      ELSE ms[i]]]

\* ------------------------------------------------------------------ tick
Stages == 1..7
LastStage == 7

Launchable(ms, i) ==
    /\ ms[i].st = "pending"
    /\ \A j \in 1..(i - 1) : ms[j].st = "finished"

\* One stage of the loop body applied to a Tournament, in the order of the
\* pausetask docstring.  inactive: the players of the ongoing matches have
\* been silent past the AFK delay.
TickStage(ag, s, inactive) ==
    LET ms == ag.matches
    IN CASE s = 1 -> [ag EXCEPT !.participants = RemoteParticipants]
         [] s = 2 -> [ag EXCEPT !.matches =
                        IF ms = <<>> THEN RemoteMatches
                        ELSE [i \in DOMAIN ms |->
                                IF ms[i].st = "flagged_afk"
                                THEN [ms[i] EXCEPT !.st = "finished"] ELSE ms[i]]]
         [] s = 3 -> [ag EXCEPT !.matches = [i \in DOMAIN ms |->
                        IF Launchable(ms, i) THEN Match("ongoing", i, FALSE) ELSE ms[i]]]
         [] s = 4 -> [ag EXCEPT !.matches = [i \in DOMAIN ms |->
                        IF ms[i].st = "ongoing" /\ ~ms[i].afkoff /\ inactive
                        THEN [ms[i] EXCEPT !.st = "flagged_afk"] ELSE ms[i]]]
         [] s = 5 -> [ag EXCEPT !.matches = [i \in DOMAIN ms |->
                        IF ms[i].st = "finished" THEN [ms[i] EXCEPT !.channel = 0]
                        ELSE ms[i]]]
         [] OTHER -> ag

Outcomes == {"ok", "transient", "fatal"}

\* ----------------------------------------------------------------- procs
NewProc(op, arg) ==
    [op |-> op, arg |-> arg, pc |-> "done", t |-> 0, stage |-> 0,
     items |-> <<>>, failed |-> 0, replies |-> <<>>,
     \* history, read by the properties only
     attempts |-> 0, saved |-> <<>>, active |-> FALSE, pre |-> {}, log |-> <<>>,
     tickres |-> "none"]

Ops == {"reload", "restore", "hardreset", "resetmatches", "resetparticipants",
        "refresh", "pausetask", "resumetask", "runtaskonce"}

\* A decorator that lets resetparticipants through in every phase.
AllowedPhases_anyphase(op) ==
    CASE op = "resetmatches" -> {"ongoing"}
      [] op = "pausetask" -> {"ongoing"}
      [] op = "resumetask" -> {"ongoing"}
      [] op = "runtaskonce" -> {"ongoing"}
      [] OTHER -> Phases

\* The arguments of the only_phase decorators; only_phase() allows any phase.
AllowedPhases(op) ==
    CASE op = "resetmatches" -> {"ongoing"}
      [] op = "resetparticipants" -> {"register", "checkin"}
      [] op = "pausetask" -> {"ongoing"}
      [] op = "resumetask" -> {"ongoing"}
      [] op = "runtaskonce" -> {"ongoing"}
      [] OTHER -> Phases

\* utils.only_phase: the check that runs before the command's body.
only_phase(op) ==
    IF tournaments = 0 THEN "NoActiveTournament"
    ELSE IF aggs[tournaments].phase \notin AllowedPhases(op) THEN "PhaseMismatch"
    ELSE "ok"

Gated == Ops \ {"restore"}

Reply(p, r) == [p EXCEPT !.replies = Append(@, r)]
Finish(p, r) == [p EXCEPT !.replies = Append(@, r), !.pc = "done", !.stage = 0]

\* A tournament found in the middle of play: the first match is over and its
\* channel not yet cleaned, the second is being played.
MidMatches == <<Match("finished", 1, FALSE), Match("ongoing", 2, FALSE)>>

\* The second one was set up without a role for its participants.
InitTournaments ==
    {Tournament("register", RemoteParticipants, <<>>),
     [Tournament("register", RemoteParticipants, <<>>) EXCEPT !.participant_role = FALSE],
     Tournament("ongoing", RemoteParticipants, RemoteMatches),
     Tournament("ongoing", RemoteParticipants, MidMatches)}

\* After the cog has loaded: the saved tournament was restored, or its
\* restoration failed and it is only on disk.
Init ==
    /\ \E ag \in InitTournaments, reg \in BOOLEAN :
         /\ aggs = IF reg THEN <<ag>> ELSE <<>>
         /\ tournaments = IF reg THEN 1 ELSE 0
         /\ store = <<Snapshot(ag)>>
    /\ procs = <<>>
    /\ nticks = 0

Args(op) == IF op \in {"resetmatches", "resetparticipants"} THEN BOOLEAN ELSE {FALSE}

Begin(p) == procs' = Append(procs, p)
Upd(i, p) == procs' = [procs EXCEPT ![i] = p]
At(i, pc, o) == procs[i].op = o /\ procs[i].pc = pc

\* A command refused by only_phase: nothing of the body runs.
Rejected ==
    /\ Len(procs) < MaxOps
    /\ \E op \in Gated : \E arg \in Args(op) :
         /\ only_phase(op) # "ok"
         /\ Begin(Finish(NewProc(op, arg), only_phase(op)))
    /\ UNCHANGED <<tournaments, aggs, store, nticks>>

\* -------------------------------------------------------- the loop body
StageResult(ag, s, o, inactive) == IF o = "ok" THEN TickStage(ag, s, inactive) ELSE ag

Inactive(s) == IF s = 4 THEN BOOLEAN ELSE {FALSE}

\* A loop body that gives up its remaining stages, the save included, at the
\* first stage that fails.
TickNext_giveup(s, o) == IF o # "ok" \/ s = LastStage THEN 0 ELSE s + 1

\* The stage that follows stage s once it has ended with outcome o; 0: the
\* body is over.  A stage skipped on a transient error is followed by the
\* next one like a stage that was done.
TickNext(s, o) == IF o = "fatal" \/ s = LastStage THEN 0 ELSE s + 1

\* The scheduled loop of Tournament a begins an iteration.
LoopTickStart ==
    /\ nticks < MaxTicks
    /\ \E a \in DOMAIN aggs :
         /\ aggs[a].task
         /\ aggs[a].tick = 0
         /\ aggs' = [aggs EXCEPT ![a].tick = 1]
    /\ nticks' = nticks + 1
    /\ UNCHANGED <<tournaments, store, procs>>

\* One stage of a scheduled iteration: done, skipped on a transient error, or
\* fatal, which ends the iteration and stops the loop.
LoopTickStep ==
    \E a \in DOMAIN aggs :
      /\ aggs[a].tick > 0
      /\ LET s == aggs[a].tick
         IN \E o \in Outcomes, inactive \in Inactive(s) :
              LET ag == StageResult(aggs[a], s, o, inactive)
              IN IF o = "fatal"
                 THEN /\ aggs' = [aggs EXCEPT ![a].tick = 0, ![a].task = FALSE]
                      /\ UNCHANGED store
                 ELSE /\ aggs' = [aggs EXCEPT ![a] = [ag EXCEPT !.tick = TickNext(s, o)]]
                      /\ store' = IF s = LastStage /\ o = "ok"
                                  THEN <<Snapshot(ag)>> ELSE store
      /\ UNCHANGED <<tournaments, procs, nticks>>

\* A resumetask that starts the loop whatever the dry run did.
tournamentfix_resumetask_after_always(p, failed) ==
    IF failed THEN [Reply(p, "ResumeDryRunFailed") EXCEPT !.pc = "sleep", !.stage = 0]
    ELSE [p EXCEPT !.pc = "sleep", !.stage = 0]

\* resumetask, lines 297-310: the except branch, and the else branch up to
\* its sleep.
tournamentfix_resumetask_after(p, failed) ==
    IF failed THEN Finish(p, "ResumeDryRunFailed")
    ELSE [p EXCEPT !.pc = "sleep", !.stage = 0]

\* A runtaskonce that runs the loop body again when it has failed.
tournamentfix_runtaskonce_after_retry(p, failed) ==
    IF failed THEN [p EXCEPT !.stage = 1] ELSE Finish(p, "Ticked")

\* runtaskonce, lines 326-332.
tournamentfix_runtaskonce_after(p, failed) ==
    IF failed THEN Finish(p, "TickFailed") ELSE Finish(p, "Ticked")

AfterTick(p, failed) ==
    IF p.op = "resumetask" THEN tournamentfix_resumetask_after(p, failed)
    ELSE tournamentfix_runtaskonce_after(p, failed)

\* One stage of a loop body that a command runs itself, on the Tournament it
\* took from the registry when it began.
ManualTickStep ==
    \E i \in DOMAIN procs :
      /\ procs[i].pc = "tick"
      /\ LET p == procs[i]
             s == p.stage
             a == p.t
         IN \E o \in Outcomes, inactive \in Inactive(s) :
              LET ag == StageResult(aggs[a], s, o, inactive)
              IN IF o = "fatal"
                 THEN /\ Upd(i, AfterTick([p EXCEPT !.tickres = "failed"], TRUE))
                      /\ UNCHANGED <<aggs, store>>
                 ELSE /\ aggs' = [aggs EXCEPT ![a] = ag]
                      /\ store' = IF s = LastStage /\ o = "ok"
                                  THEN <<Snapshot(ag)>> ELSE store
                      /\ Upd(i, IF TickNext(s, o) = 0
                                THEN AfterTick([p EXCEPT !.tickres = "ok"], FALSE)
                                ELSE [p EXCEPT !.stage = TickNext(s, o)])
      /\ UNCHANGED <<tournaments, nticks>>

\* ------------------------------------------------- _restore_tournament
\* The Tournament rebuilt from what is on disk, as <<tournament>>; <<>> when
\* the reconstruction raises (nothing usable on disk, or the bracket cannot
\* be reached: ok = FALSE).
restore_tournament(data, ok) ==
    IF data = <<>> \/ ~ok THEN <<>> ELSE <<FromSnapshot(data[1])>>

\* self.tournaments[guild.id] = <the tournament rebuilt>
Register(ag) ==
    /\ aggs' = Append(aggs, ag)
    /\ tournaments' = Len(aggs) + 1

\* ---------------------------------------------------------------- reload
\* lines 48-50: tournament = self.tournaments[guild.id]; await tournament.save()
tournamentfix_reload ==
    /\ Len(procs) < MaxOps
    /\ only_phase("reload") = "ok"
    /\ LET snap == <<Snapshot(aggs[tournaments])>>
       IN /\ store' = snap
          /\ Begin([NewProc("reload", FALSE) EXCEPT
                      !.pc = "saving", !.t = tournaments, !.saved = snap,
                      !.active = aggs[tournaments].task])
    /\ UNCHANGED <<tournaments, aggs, nticks>>

\* What line 51 does to the Tournament being unloaded before the key is
\* deleted: nothing.
reload_unload(ag) == ag

\* lines 51-53: del self.tournaments[guild.id], then the call of
\* _restore_tournament, which suspends.
tournamentfix_reload_del ==
    \E i \in DOMAIN procs :
      /\ At(i, "saving", "reload")
      /\ IF tournaments = 0
         THEN /\ Upd(i, Finish(procs[i], "KeyError"))
              /\ UNCHANGED <<tournaments, aggs>>
         ELSE /\ aggs' = [aggs EXCEPT ![tournaments] = reload_unload(@)]
              /\ tournaments' = 0
              /\ Upd(i, [procs[i] EXCEPT !.pc = "restoring", !.attempts = @ + 1])
      /\ UNCHANGED <<store, nticks>>

\* lines 53-64: _restore_tournament returns or raises.
tournamentfix_reload_restored ==
    \E i \in DOMAIN procs, ok \in BOOLEAN :
      /\ At(i, "restoring", "reload")
      /\ LET r == restore_tournament(store, ok)
         IN IF r = <<>>
            THEN /\ Upd(i, Finish(procs[i], "ReloadFailed"))
                 /\ UNCHANGED <<tournaments, aggs>>
            ELSE /\ Register(r[1])
                 /\ Upd(i, Finish(procs[i], "Reloaded"))
      /\ UNCHANGED <<store, nticks>>

\* --------------------------------------------------------------- restore
\* lines 78-87: the check of the registry, then the read of the saved data.
tournamentfix_restore ==
    /\ Len(procs) < MaxOps
    /\ Begin(IF tournaments # 0
             THEN Finish(NewProc("restore", FALSE), "AlreadySetup")
             ELSE [NewProc("restore", FALSE) EXCEPT
                     !.pc = "reading",
                     !.pre = {j \in DOMAIN procs : procs[j].pc # "done"}])
    /\ UNCHANGED <<tournaments, aggs, store, nticks>>

\* lines 87-90: with nothing on disk the message is sent, and the body goes
\* on to the try block all the same (there is no return after line 88).
tournamentfix_restore_read(p, data) ==
    LET q == IF data = <<>> THEN Reply(p, "NothingToRestore") ELSE p
    IN [q EXCEPT !.pc = "restoring", !.attempts = @ + 1]

tournamentfix_restore_loaded ==
    \E i \in DOMAIN procs :
      /\ At(i, "reading", "restore")
      /\ Upd(i, tournamentfix_restore_read(procs[i], store))
      /\ UNCHANGED <<tournaments, aggs, store, nticks>>

\* An except branch that reports a success.
tournamentfix_restore_except_quiet(p) == Finish(p, "Restored")

\* lines 91-98: the except branch logs and reports; it touches neither the
\* registry nor the disk.
tournamentfix_restore_except(p) == Finish(p, "RestoreFailed")

\* lines 90-100
tournamentfix_restore_restored ==
    \E i \in DOMAIN procs, ok \in BOOLEAN :
      /\ At(i, "restoring", "restore")
      /\ LET r == restore_tournament(store, ok)
         IN IF r = <<>>
            THEN /\ Upd(i, tournamentfix_restore_except(procs[i]))
                 /\ UNCHANGED <<tournaments, aggs>>
            ELSE /\ Register(r[1])
                 /\ Upd(i, Finish(procs[i], "Restored"))
      /\ UNCHANGED <<store, nticks>>

\* ------------------------------------------------------------- hardreset
\* lines 121-132: the question is sent and the answer awaited.
tournamentfix_hardreset ==
    /\ Len(procs) < MaxOps
    /\ only_phase("hardreset") = "ok"
    /\ Begin([NewProc("hardreset", FALSE) EXCEPT !.pc = "confirm"])
    /\ UNCHANGED <<tournaments, aggs, store, nticks>>

\* A reset that stops the loop before it looks at the answer.
hardreset_declined_stopped(ag) == stop_loop_task(ag)

\* lines 133-138: what a reset that was not confirmed does to the Tournament
\* before it returns: nothing.
hardreset_declined(ag) == ag

\* lines 133-141: no answer, a refusal, or the reset itself.
tournamentfix_hardreset_answer ==
    \E i \in DOMAIN procs, answer \in {"yes", "no", "timeout"} :
      /\ At(i, "confirm", "hardreset")
      /\ IF answer # "yes"
         THEN /\ Upd(i, Finish(procs[i], IF answer = "no" THEN "Cancelled" ELSE "TimedOut"))
              /\ aggs' = IF tournaments = 0 THEN aggs
                         ELSE [aggs EXCEPT ![tournaments] = hardreset_declined(@)]
              /\ UNCHANGED <<tournaments, store>>
         ELSE IF tournaments = 0
         THEN /\ Upd(i, Finish(procs[i], "KeyError"))
              /\ UNCHANGED <<tournaments, aggs, store>>
         ELSE /\ aggs' = [aggs EXCEPT ![tournaments] = stop_loop_task(@)]
              /\ tournaments' = 0
              /\ store' = <<>>
              /\ Upd(i, [procs[i] EXCEPT !.pc = "wiped", !.t = tournaments])
      /\ UNCHANGED nticks

\* lines 142-143
tournamentfix_hardreset_done ==
    \E i \in DOMAIN procs :
      /\ At(i, "wiped", "hardreset")
      /\ Upd(i, Finish(procs[i], "HardReset"))
      /\ UNCHANGED <<tournaments, aggs, store, nticks>>

\* ---------------------------------------------------------- resetmatches
\* line 160: [x.channel for x in tournament.matches if x.channel is not None]
Channels(ms) ==
    LET HasChannel(m) == m.channel # 0
        with == SelectSeq(ms, HasChannel)
    IN [k \in 1..Len(with) |-> with[k].channel]

\* lines 157-163: the channels are taken, the lists emptied, the save begun.
tournamentfix_resetmatches ==
    /\ Len(procs) < MaxOps
    /\ only_phase("resetmatches") = "ok"
    /\ \E try_delete \in BOOLEAN :
         LET t == tournaments
             ms == aggs[t].matches
             ag == [aggs[t] EXCEPT !.matches = <<>>, !.participants = {}]
         IN /\ aggs' = [aggs EXCEPT ![t] = ag]
            /\ store' = <<Snapshot(ag)>>
            /\ Begin([NewProc("resetmatches", try_delete) EXCEPT
                        !.pc = "saved", !.t = t,
                        !.items = IF try_delete THEN Channels(ms) ELSE <<>>,
                        !.pre = {ms[k].channel : k \in DOMAIN ms} \ {0}])
    /\ UNCHANGED <<tournaments, nticks>>

\* lines 164-170 and 175-178 when there is nothing to delete.
tournamentfix_resetmatches_saved ==
    \E i \in DOMAIN procs :
      /\ At(i, "saved", "resetmatches")
      /\ LET p == procs[i]
         IN Upd(i, IF ~p.arg THEN Finish(p, "MatchesReset")
                   ELSE IF p.items = <<>>
                   THEN Finish(Reply(p, "MatchesResetDeleting"), "ChannelsDeleted")
                   ELSE [Reply(p, "MatchesResetDeleting") EXCEPT !.pc = "deleting"])
      /\ UNCHANGED <<tournaments, aggs, store, nticks>>

\* A loop that gives up at the first channel it cannot delete.
resetmatches_delete_abort(p, ok) ==
    [p EXCEPT !.items = IF ok THEN Tail(@) ELSE <<>>,
              !.failed = IF ok THEN @ ELSE @ + 1,
              !.log = Append(@, [item |-> Head(p.items), ok |-> ok])]

\* lines 170-174: one round of the for loop; ok = FALSE: channel.delete()
\* raised discord.HTTPException.
resetmatches_delete(p, ok) ==
    [p EXCEPT !.items = Tail(@),
              !.failed = IF ok THEN @ ELSE @ + 1,
              !.log = Append(@, [item |-> Head(p.items), ok |-> ok])]

\* lines 170-178
tournamentfix_resetmatches_delete ==
    \E i \in DOMAIN procs, ok \in BOOLEAN :
      /\ At(i, "deleting", "resetmatches")
      /\ LET q == resetmatches_delete(procs[i], ok)
         IN Upd(i, IF q.items = <<>> THEN Finish(q, "ChannelsDeleted") ELSE q)
      /\ UNCHANGED <<tournaments, aggs, store, nticks>>

\* ----------------------------------------------------- resetparticipants
RECURSIVE SetToSeq(_)
SetToSeq(S) ==
    IF S = {} THEN <<>>
    ELSE LET x == CHOOSE y \in S : \A z \in S : y <= z
         IN <<x>> \o SetToSeq(S \ {x})

\* lines 191-196
tournamentfix_resetparticipants ==
    /\ Len(procs) < MaxOps
    /\ only_phase("resetparticipants") = "ok"
    /\ \E try_remove \in BOOLEAN :
         LET t == tournaments
             ps == aggs[t].participants
             ag == [aggs[t] EXCEPT !.participants = {}]
         IN /\ aggs' = [aggs EXCEPT ![t] = ag]
            /\ store' = <<Snapshot(ag)>>
            /\ Begin([NewProc("resetparticipants", try_remove) EXCEPT
                        !.pc = "saved", !.t = t,
                        !.items = IF try_remove /\ aggs[t].participant_role
                                  THEN SetToSeq(ps) ELSE <<>>,
                        !.pre = ps])
    /\ UNCHANGED <<tournaments, nticks>>

\* lines 197-203 and 208-217 when there is no role to remove.
tournamentfix_resetparticipants_saved ==
    \E i \in DOMAIN procs :
      /\ At(i, "saved", "resetparticipants")
      /\ LET p == procs[i]
         IN Upd(i, IF ~p.arg THEN Finish(p, "ParticipantsReset")
                   ELSE IF p.items = <<>>
                   THEN Finish(Reply(p, "ParticipantsResetRemoving"), "RolesRemoved")
                   ELSE [Reply(p, "ParticipantsResetRemoving") EXCEPT !.pc = "removing"])
      /\ UNCHANGED <<tournaments, aggs, store, nticks>>

\* A loop that gives up at the first role it cannot remove.
resetparticipants_remove_abort(p, ok) ==
    [p EXCEPT !.items = IF ok THEN Tail(@) ELSE <<>>,
              !.failed = IF ok THEN @ ELSE @ + 1,
              !.log = Append(@, [item |-> Head(p.items), ok |-> ok])]

\* lines 203-207: one round of the for loop; ok = FALSE: remove_roles raised
\* discord.HTTPException.
resetparticipants_remove(p, ok) ==
    [p EXCEPT !.items = Tail(@),
              !.failed = IF ok THEN @ ELSE @ + 1,
              !.log = Append(@, [item |-> Head(p.items), ok |-> ok])]

\* lines 203-217
tournamentfix_resetparticipants_remove ==
    \E i \in DOMAIN procs, ok \in BOOLEAN :
      /\ At(i, "removing", "resetparticipants")
      /\ LET q == resetparticipants_remove(procs[i], ok)
         IN Upd(i, IF q.items = <<>> THEN Finish(q, "RolesRemoved") ELSE q)
      /\ UNCHANGED <<tournaments, aggs, store, nticks>>

\* --------------------------------------------------------------- refresh
\* lines 241-243: the bracket is asked for the tournament.
tournamentfix_refresh ==
    /\ Len(procs) < MaxOps
    /\ only_phase("refresh") = "ok"
    /\ Begin([NewProc("refresh", FALSE) EXCEPT !.pc = "fetching", !.t = tournaments])
    /\ UNCHANGED <<tournaments, aggs, store, nticks>>

\* A refresh that takes the participants of the bracket as well.
refresh_update_all(ag, data) ==
    [ag EXCEPT !.name = data.name, !.limit = data.limit,
               !.participants = RemoteParticipants]

\* lines 244-245
refresh_update(ag, data) == [ag EXCEPT !.name = data.name, !.limit = data.limit]

\* lines 243-246: the answer, or the error of the request, which nothing in
\* the command catches.
tournamentfix_refresh_fetched ==
    \E i \in DOMAIN procs, ok \in BOOLEAN :
      /\ At(i, "fetching", "refresh")
      /\ LET t == procs[i].t
         IN IF ok
            THEN /\ aggs' = [aggs EXCEPT ![t] = refresh_update(@, RemoteInfo)]
                 /\ Upd(i, Finish(procs[i], "Refreshed"))
            ELSE /\ Upd(i, Finish(procs[i], "HTTPException"))
                 /\ UNCHANGED aggs
      /\ UNCHANGED <<tournaments, store, nticks>>

\* ------------------------------------------------------------- pausetask
\* lines 270-280
tournamentfix_pausetask ==
    /\ Len(procs) < MaxOps
    /\ only_phase("pausetask") = "ok"
    /\ LET t == tournaments
       IN IF ~aggs[t].task
          THEN /\ Begin(Finish([NewProc("pausetask", FALSE) EXCEPT !.t = t], "TaskNotActive"))
               /\ UNCHANGED aggs
          ELSE /\ aggs' = [aggs EXCEPT ![t] = stop_loop_task(@)]
               /\ Begin(Finish([NewProc("pausetask", FALSE) EXCEPT !.t = t], "Paused"))
    /\ UNCHANGED <<tournaments, store, nticks>>

\* ------------------------------------------------ resumetask, runtaskonce
\* lines 290-296: the loop body is called on the Tournament, outside the loop.
tournamentfix_resumetask ==
    /\ Len(procs) < MaxOps
    /\ only_phase("resumetask") = "ok"
    /\ Begin([NewProc("resumetask", FALSE) EXCEPT
                !.pc = "tick", !.stage = 1, !.t = tournaments])
    /\ UNCHANGED <<tournaments, aggs, store, nticks>>

\* lines 308-310: after the sleep, tournament.start_loop_task()
tournamentfix_resumetask_start ==
    \E i \in DOMAIN procs :
      /\ At(i, "sleep", "resumetask")
      /\ aggs' = [aggs EXCEPT ![procs[i].t] = start_loop_task(@)]
      /\ Upd(i, Finish(procs[i], "Resumed"))
      /\ UNCHANGED <<tournaments, store, nticks>>

\* lines 320-325
tournamentfix_runtaskonce ==
    /\ Len(procs) < MaxOps
    /\ only_phase("runtaskonce") = "ok"
    /\ Begin([NewProc("runtaskonce", FALSE) EXCEPT
                !.pc = "tick", !.stage = 1, !.t = tournaments])
    /\ UNCHANGED <<tournaments, aggs, store, nticks>>

\* ------------------------------------------------------------- lifecycle
\* A command of another file moves the tournament to its next phase: the
\* loop starts with the ongoing phase and stops with it.
AdvancePhase ==
    /\ Len(procs) < MaxOps
    /\ tournaments # 0
    /\ aggs[tournaments].phase # "finished"
    /\ LET ph == NextPhase(aggs[tournaments].phase)
       IN aggs' = [aggs EXCEPT ![tournaments].phase = ph,
                               ![tournaments].task = (ph = "ongoing")]
    /\ Begin(Finish([NewProc("lifecycle", FALSE) EXCEPT !.t = tournaments], "Advanced"))
    /\ UNCHANGED <<tournaments, store, nticks>>

Next ==
    \/ Rejected
    \/ LoopTickStart
    \/ LoopTickStep
    \/ ManualTickStep
    \/ tournamentfix_reload
    \/ tournamentfix_reload_del
    \/ tournamentfix_reload_restored
    \/ tournamentfix_restore
    \/ tournamentfix_restore_loaded
    \/ tournamentfix_restore_restored
    \/ tournamentfix_hardreset
    \/ tournamentfix_hardreset_answer
    \/ tournamentfix_hardreset_done
    \/ tournamentfix_resetmatches
    \/ tournamentfix_resetmatches_saved
    \/ tournamentfix_resetmatches_delete
    \/ tournamentfix_resetparticipants
    \/ tournamentfix_resetparticipants_saved
    \/ tournamentfix_resetparticipants_remove
    \/ tournamentfix_refresh
    \/ tournamentfix_refresh_fetched
    \/ tournamentfix_pausetask
    \/ tournamentfix_resumetask
    \/ tournamentfix_resumetask_start
    \/ tournamentfix_runtaskonce
    \/ AdvancePhase

Spec == Init /\ [][Next]_vars

\* The event loop resumes a suspended iteration of the background loop when
\* the call it awaits returns or raises: a stage that can run does run.
FairSpec == Spec /\ WF_vars(LoopTickStep)

\* ================================================================ claims
Replies(p) == {p.replies[k] : k \in DOMAIN p.replies}

\* Proc i ends in this step.
Completes(i) == procs[i].pc # "done" /\ procs'[i].pc = "done"

\* The loop bodies in flight on Tournament a: the iteration of its own loop
\* and those that commands are running.
InFlight(a) ==
    (IF aggs[a].tick > 0 THEN 1 ELSE 0)
    + Cardinality({i \in DOMAIN procs : procs[i].pc = "tick" /\ procs[i].t = a})

\* C1: for one tenant at most one loop body executes at any moment, whether
\* the loop scheduled it or a command (runtaskonce, the dry run of
\* resumetask) started it.
C1_OneTickAtATime == \A a \in DOMAIN aggs : InFlight(a) <= 1

\* C2: a restore that finds the empty marker on disk answers
\* NothingToRestore and does nothing else: it attempts no reconstruction and
\* registers nothing.
C2_NothingToRestore ==
    \A i \in DOMAIN procs :
      (procs[i].op = "restore" /\ "NothingToRestore" \in Replies(procs[i]))
        => /\ procs[i].attempts = 0
           /\ procs[i].pc = "done"
           /\ procs[i].replies = <<"NothingToRestore">>
           /\ tournaments = 0

\* C3: in every reachable state the tenant has at most one Tournament whose
\* loop is scheduled.
C3_OneLoopPerTenant == Cardinality({a \in DOMAIN aggs : aggs[a].task}) <= 1

\* C4: a Tournament is registered only when the tenant has none: a
\* registration never replaces a registered Tournament.
C4_NoReplacement ==
    [][(tournaments' # tournaments /\ tournaments' # 0) => tournaments = 0]_vars

\* C5: a reload of an ongoing tournament whose loop is active ends either
\* with a new Tournament registered, holding the participants and matches
\* saved when the reload began, its loop running iff its phase is ongoing, or
\* with the tenant unregistered and the snapshot saved when the reload began
\* still on disk.  Stated for a reload that is the only command issued: what
\* runs beside it is the tournament's own loop.
C5_ReloadOutcome ==
    [][\A i \in DOMAIN procs :
         (/\ Len(procs) = 1
          /\ procs[i].op = "reload"
          /\ Completes(i)
          /\ procs[i].pc = "restoring"
          /\ procs[i].active
          /\ procs[i].saved[1].phase = "ongoing")
         => LET p == procs'[i]
                n == tournaments'
            IN \/ /\ n # 0
                  /\ n # p.t
                  /\ aggs'[n].participants = p.saved[1].participants
                  /\ aggs'[n].matches = p.saved[1].matches
                  /\ aggs'[n].task <=> (aggs'[n].phase = "ongoing")
               \/ /\ n = 0
                  /\ store' = p.saved]_vars

\* C6: once a confirmed hardreset has completed, the loop of the Tournament
\* it removed is stopped, the tenant is unregistered and the entry on disk is
\* the empty marker, and stays so: no loop body of the removed Tournament
\* writes a snapshot back.
C6_StaysWiped ==
    \A i \in DOMAIN procs :
      (procs[i].op = "hardreset" /\ procs[i].replies = <<"HardReset">>)
        => /\ store = <<>>
           /\ tournaments = 0
           /\ ~aggs[procs[i].t].task

\* C8: a loop is scheduled only for a Tournament whose phase is ongoing, and
\* resumetask starts the loop only of a Tournament that is still registered
\* and still ongoing.
C8_LoopOnlyIfOngoing ==
    [][/\ \A a \in DOMAIN aggs' : aggs'[a].task => aggs'[a].phase = "ongoing"
       /\ \A i \in DOMAIN procs :
            (procs[i].op = "resumetask" /\ procs[i].pc = "sleep" /\ Completes(i))
              => /\ tournaments = procs[i].t
                 /\ aggs[procs[i].t].phase = "ongoing"]_vars

\* The phases the claim gives for each gated command.
C7_Allowed(op) ==
    IF op \in {"resetmatches", "pausetask", "resumetask", "runtaskonce"} THEN {"ongoing"}
    ELSE IF op = "resetparticipants" THEN {"register", "checkin"}
    ELSE Phases

C7_Verdict(op) ==
    IF tournaments = 0 THEN "NoActiveTournament"
    ELSE IF aggs[tournaments].phase \notin C7_Allowed(op) THEN "PhaseMismatch"
    ELSE "ok"

\* A command that has answered r and has done, and will do, nothing else.
Refused(p, r) ==
    /\ p.pc = "done"
    /\ p.replies = <<r>>
    /\ p.stage = 0 /\ p.attempts = 0 /\ p.log = <<>> /\ p.items = <<>>

\* C7: a gated command invoked with no Tournament registered answers
\* NoActiveTournament, and one invoked in a phase outside its allowed set
\* answers PhaseMismatch; either way the registry, the Tournaments (their
\* loops included) and the disk are unchanged and the command makes no call.
C7_PhaseGate ==
    [][Len(procs') > Len(procs) =>
         LET p == procs'[Len(procs')]
         IN (p.op \in Gated /\ C7_Verdict(p.op) # "ok")
              => /\ Refused(p, C7_Verdict(p.op))
                 /\ UNCHANGED <<tournaments, aggs, store>>]_vars

\* resetparticipants refused while the tournament is ongoing.
C7_Witness ==
    \E i \in DOMAIN procs :
      /\ procs[i].op = "resetparticipants"
      /\ procs[i].replies = <<"PhaseMismatch">>
      /\ tournaments # 0
      /\ aggs[tournaments].phase = "ongoing"
      /\ aggs[tournaments].participants # {}

\* C9: a resumetask whose dry run fails answers ResumeDryRunFailed and leaves
\* every Tournament as it was (a stopped loop stays stopped, the phase stays
\* ongoing); only a resumetask whose dry run completed without error gets to
\* its sleep and answers Resumed, and no step of a resumetask before the end
\* of that sleep changes whether the loop is scheduled.
C9_DryRunGate ==
    [][\A i \in DOMAIN procs' :
         procs'[i].op = "resumetask" =>
           LET q == procs'[i]
           IN /\ q.tickres = "failed"
                   => /\ q.pc = "done"
                      /\ q.replies = <<"ResumeDryRunFailed">>
              /\ (i \in DOMAIN procs /\ procs[i].pc = "tick" /\ q.tickres = "failed")
                   => aggs' = aggs
              /\ (q.pc = "sleep" \/ "Resumed" \in Replies(q)) => q.tickres = "ok"
              /\ (i \in DOMAIN procs /\ procs[i] # q /\ procs[i].pc # "sleep")
                   => aggs'[q.t].task = aggs[q.t].task
              /\ i \notin DOMAIN procs => aggs' = aggs
      ]_vars

\* A paused ongoing tournament whose resumetask failed at its dry run: the
\* loop is still stopped.
C9_Witness ==
    \E i \in DOMAIN procs :
      /\ procs[i].op = "resumetask"
      /\ procs[i].replies = <<"ResumeDryRunFailed">>
      /\ ~aggs[procs[i].t].task
      /\ aggs[procs[i].t].phase = "ongoing"
      /\ tournaments = procs[i].t

\* The deletions of log that failed.
Failures(log) == Cardinality({k \in DOMAIN log : ~log[k].ok})

\* C10: resetmatches, once through the gate, empties matches and participants
\* and saves them so; nothing it does afterwards, whatever the deletions
\* give, touches the Tournament or the disk again; with try_delete it ends
\* having attempted the deletion of every channel that was attached to a
\* match before the clearing, once each, and the count it reports is the
\* number of deletions that failed.
C10_ResetMatches ==
    [][\A i \in DOMAIN procs' :
         procs'[i].op = "resetmatches" /\ procs'[i].replies # <<"PhaseMismatch">>
           /\ procs'[i].replies # <<"NoActiveTournament">> =>
           LET q == procs'[i]
           IN /\ i \notin DOMAIN procs
                   => /\ aggs'[q.t].matches = <<>>
                      /\ aggs'[q.t].participants = {}
                      /\ store' = <<Snapshot(aggs'[q.t])>>
                      /\ aggs[q.t].phase = "ongoing"
              /\ (i \in DOMAIN procs /\ procs[i] # q)
                   => UNCHANGED <<tournaments, aggs, store>>
              /\ q.pc = "done"
                   => /\ q.failed = Failures(q.log)
                      /\ Len(q.log) = (IF q.arg THEN Cardinality(q.pre) ELSE 0)
                      /\ q.arg => {q.log[k].item : k \in DOMAIN q.log} = q.pre
      ]_vars

\* resetmatches with try_delete on two matches with a channel each, the first
\* deletion failed, the second done.
C10_Witness ==
    \E i \in DOMAIN procs :
      /\ procs[i].op = "resetmatches"
      /\ procs[i].pc = "done"
      /\ procs[i].arg
      /\ Len(procs[i].log) = 2
      /\ ~procs[i].log[1].ok
      /\ procs[i].log[2].ok
      /\ procs[i].failed = 1
      /\ aggs[procs[i].t].matches = <<>>

\* C11: resetparticipants, once through the gate (phase register or checkin),
\* empties the participants, leaves the rest of the Tournament alone and saves
\* it so; nothing it does afterwards touches the Tournament or the disk; with
\* try_remove on a tournament that has a participant role it ends having
\* attempted the removal of the role of every participant that was in the
\* list before the clearing, once each, a failure not stopping the others,
\* and the count it reports is the number of removals that failed; with no
\* role configured there is nothing to remove.
C11_ResetParticipants ==
    [][\A i \in DOMAIN procs' :
         procs'[i].op = "resetparticipants" /\ procs'[i].replies # <<"PhaseMismatch">>
           /\ procs'[i].replies # <<"NoActiveTournament">> =>
           LET q == procs'[i]
               role == aggs'[q.t].participant_role
           IN /\ i \notin DOMAIN procs
                   => /\ aggs[q.t].phase \in {"register", "checkin"}
                      /\ q.t = tournaments
                      /\ q.pre = aggs[q.t].participants
                      /\ aggs' = [aggs EXCEPT ![q.t].participants = {}]
                      /\ store' = <<Snapshot(aggs'[q.t])>>
                      /\ tournaments' = tournaments
              /\ (i \in DOMAIN procs /\ procs[i] # q)
                   => UNCHANGED <<tournaments, aggs, store>>
              /\ q.pc = "done"
                   => /\ q.failed = Failures(q.log)
                      /\ Len(q.log) = (IF q.arg /\ role THEN Cardinality(q.pre) ELSE 0)
                      /\ (q.arg /\ role) => {q.log[k].item : k \in DOMAIN q.log} = q.pre
      ]_vars

\* resetparticipants with try_remove on two participants: the first removal
\* failed, the second was still attempted and done.
C11_Witness ==
    \E i \in DOMAIN procs :
      /\ procs[i].op = "resetparticipants"
      /\ procs[i].pc = "done"
      /\ procs[i].arg
      /\ procs[i].pre = RemoteParticipants
      /\ Len(procs[i].log) = 2
      /\ ~procs[i].log[1].ok
      /\ procs[i].log[2].ok
      /\ procs[i].failed = 1
      /\ aggs[procs[i].t].participants = {}
      /\ store = <<Snapshot(aggs[procs[i].t])>>

\* C12: a pausetask that stops the loop disables the AFK check of exactly the
\* matches that are ongoing at that moment: every other match keeps its flag,
\* and no match changes otherwise; and no step, in particular no stage of a
\* loop body run while the loop is stopped, moves a match whose AFK check is
\* disabled from ongoing to flagged_afk, however long its players have been
\* silent.
C12_PauseDisablesAFK ==
    [][/\ \A i \in DOMAIN procs' :
            (i \notin DOMAIN procs /\ procs'[i].op = "pausetask"
               /\ procs'[i].replies = <<"Paused">>) =>
              LET t == procs'[i].t
                  ms == aggs[t].matches
                  ns == aggs'[t].matches
              IN /\ aggs[t].task /\ ~aggs'[t].task
                 /\ DOMAIN ns = DOMAIN ms
                 /\ \A k \in DOMAIN ms :
                      /\ ns[k].st = ms[k].st
                      /\ ns[k].channel = ms[k].channel
                      /\ ns[k].afkoff = (ms[k].st = "ongoing" \/ ms[k].afkoff)
       /\ \A a \in DOMAIN aggs : \A k \in DOMAIN aggs[a].matches :
            (/\ aggs[a].matches[k].st = "ongoing"
             /\ aggs[a].matches[k].afkoff
             /\ k \in DOMAIN aggs'[a].matches)
              => aggs'[a].matches[k].st # "flagged_afk"
      ]_vars

\* A tournament paused while its second match was ongoing and its first
\* over, on which runtaskonce has then run a whole loop body: the loop is
\* still stopped, the second match is still ongoing with its AFK check
\* disabled, the first has its check enabled.
C12_Witness ==
    \E i, j \in DOMAIN procs :
      /\ i < j
      /\ procs[i].op = "pausetask" /\ procs[i].replies = <<"Paused">>
      /\ procs[j].op = "runtaskonce" /\ procs[j].replies = <<"Ticked">>
      /\ procs[j].t = procs[i].t
      /\ LET ag == aggs[procs[i].t]
         IN /\ ~ag.task
            /\ Len(ag.matches) = 2
            /\ ag.matches[1].st = "finished" /\ ~ag.matches[1].afkoff
            /\ ag.matches[2].st = "ongoing" /\ ag.matches[2].afkoff

Last(q) == q[Len(q)]

\* C13: no step of a restore writes to the disk; the step in which its
\* reconstruction fails (nothing is built) changes neither the registry nor
\* any Tournament and ends the command with RestoreFailed as its last
\* answer, and only a step that built a Tournament answers Restored; a
\* restore issued while no other command was in flight, and with none issued
\* since, fails with the tenant unregistered.
C13_RestoreFailed ==
    [][\A i \in DOMAIN procs :
         (procs[i].op = "restore" /\ procs'[i] # procs[i]) =>
           LET p == procs[i]
               q == procs'[i]
           IN /\ store' = store
              /\ p.pc = "reading" => UNCHANGED <<tournaments, aggs>>
              /\ (p.pc = "restoring" /\ (aggs' = aggs \/ store = <<>>))
                   => /\ UNCHANGED <<tournaments, aggs>>
                      /\ q.pc = "done"
                      /\ Last(q.replies) = "RestoreFailed"
                      /\ (p.pre = {} /\ i = Len(procs)) => tournaments' = 0
              /\ "Restored" \in Replies(q)
                   => /\ aggs' # aggs
                      /\ tournaments' = Len(aggs')
                      /\ Snapshot(aggs'[tournaments']) = store[1]
      ]_vars

\* A restore of a tournament that is on disk has failed: the tenant is still
\* unregistered and the snapshot still on disk.
C13_Witness ==
    \E i \in DOMAIN procs :
      /\ procs[i].op = "restore"
      /\ procs[i].replies = <<"RestoreFailed">>
      /\ procs[i].attempts = 1
      /\ tournaments = 0
      /\ store # <<>>
      /\ aggs = <<>>

\* C14: no step of a refresh changes the registry or the disk; of the
\* Tournaments it changes nothing but the name and the limit of the one it
\* took from the registry, which become those the bracket gave; and when the
\* request fails every Tournament is left as it was.
C14_RefreshFrame ==
    [][\A i \in DOMAIN procs' :
         (/\ procs'[i].op = "refresh"
          /\ procs'[i].replies \notin {<<"PhaseMismatch">>, <<"NoActiveTournament">>}
          /\ (i \in DOMAIN procs => procs[i] # procs'[i])) =>
           LET q == procs'[i]
           IN /\ UNCHANGED <<tournaments, store>>
              /\ i \notin DOMAIN procs => aggs' = aggs /\ q.t = tournaments
              /\ aggs' = [aggs EXCEPT ![q.t].name = aggs'[q.t].name,
                                      ![q.t].limit = aggs'[q.t].limit]
              /\ "Refreshed" \in Replies(q)
                   => /\ aggs'[q.t].name = RemoteInfo.name
                      /\ aggs'[q.t].limit = RemoteInfo.limit
              /\ "HTTPException" \in Replies(q) => aggs' = aggs
              /\ q.pc = "done" =>
                   (q.replies = <<"Refreshed">> \/ q.replies = <<"HTTPException">>)
      ]_vars

\* An ongoing tournament refreshed while its loop runs: it has the name and
\* the limit of the bracket, and its participants, matches, phase and loop.
C14_Witness ==
    \E i \in DOMAIN procs :
      /\ procs[i].op = "refresh"
      /\ procs[i].replies = <<"Refreshed">>
      /\ tournaments = procs[i].t
      /\ LET ag == aggs[procs[i].t]
         IN /\ ag.name = RemoteInfo.name /\ ag.limit = RemoteInfo.limit
            /\ ag.phase = "ongoing" /\ ag.task
            /\ ag.participants = RemoteParticipants
            /\ ag.matches = MidMatches

\* C15: resetmatches and resetparticipants empty the lists of a Tournament
\* and save it only while its loop is stopped and no loop body is in flight
\* on it.
C15_SingleWriter ==
    [][\A i \in DOMAIN procs' :
         (/\ i \notin DOMAIN procs
          /\ procs'[i].op \in {"resetmatches", "resetparticipants"}
          /\ procs'[i].pc = "saved")
           => /\ ~aggs[procs'[i].t].task
              /\ InFlight(procs'[i].t) = 0
      ]_vars

\* What stage s can make of Tournament ag: its effect, or nothing when it
\* was skipped.
StageEffects(ag, s) == {TickStage(ag, s, b) : b \in BOOLEAN} \cup {ag}

\* C16: a loop body, scheduled or run by a command, goes through its stages
\* in the order refresh participants, refresh matches, launch, AFK check,
\* channel cleanup, streams, save: stage s does the work of stage s or is
\* skipped, and is followed by stage s + 1; no stage before the last writes
\* to the disk, and the last one writes the Tournament as the stages that
\* succeeded have left it.  A body ends before its last stage only by a
\* fatal error (the loop stops itself, the command reports the failure), in
\* which case nothing is saved: a stage that fails otherwise is skipped and
\* the body still gets to its save.
C16_TickStages ==
    [][/\ \A a \in DOMAIN aggs :
            aggs'[a].tick # aggs[a].tick =>
              LET s == aggs[a].tick
                  n == aggs'[a].tick
              IN IF s = 0 THEN n = 1 /\ aggs' = [aggs EXCEPT ![a].tick = 1]
                 ELSE \/ /\ s < LastStage /\ n = s + 1
                         /\ [aggs'[a] EXCEPT !.tick = s] \in StageEffects(aggs[a], s)
                         /\ store' = store
                      \/ /\ s = LastStage /\ n = 0
                         /\ aggs'[a] = [aggs[a] EXCEPT !.tick = 0]
                         /\ store' \in {store, <<Snapshot(aggs[a])>>}
                      \/ /\ n = 0
                         /\ aggs'[a] = [aggs[a] EXCEPT !.tick = 0, !.task = FALSE]
                         /\ store' = store
       /\ \A i \in DOMAIN procs' :
            IF i \notin DOMAIN procs THEN procs'[i].pc = "tick" => procs'[i].stage = 1
            ELSE (procs[i].pc = "tick" /\ procs'[i] # procs[i]) =>
              LET p == procs[i]
                  q == procs'[i]
                  s == p.stage
              IN \/ /\ s < LastStage /\ q.pc = "tick" /\ q.stage = s + 1
                    /\ aggs'[p.t] \in StageEffects(aggs[p.t], s)
                    /\ store' = store
                 \/ /\ s = LastStage /\ q.pc # "tick" /\ q.tickres = "ok"
                    /\ aggs' = aggs
                    /\ store' \in {store, <<Snapshot(aggs[p.t])>>}
                 \/ /\ q.pc = "done" /\ q.tickres = "failed"
                    /\ Last(q.replies) \in {"TickFailed", "ResumeDryRunFailed"}
                    /\ aggs' = aggs
                    /\ store' = store
      ]_vars

\* runtaskonce, the only loop body run so far, players silent: the AFK check
\* flagged the second match, the cleanup of the first match's channel was
\* skipped on a transient error, and the body still saved the Tournament so.
C16_Witness ==
    /\ Len(procs) = 1
    /\ nticks = 0
    /\ procs[1].op = "runtaskonce" /\ procs[1].replies = <<"Ticked">>
    /\ LET ag == aggs[procs[1].t]
       IN /\ ag.matches = <<Match("finished", 1, FALSE),
                            Match("flagged_afk", 2, FALSE)>>
          /\ store = <<Snapshot(ag)>>

\* A pausetask that stops the loop leaves the iteration in flight where it
\* is, neither aborted nor restarted, and writes nothing; an iteration begins
\* only while the loop is scheduled, so none begins on a stopped loop; and
\* the iteration in flight on a stopped loop goes on stage by stage to its
\* save, ending earlier only on a fatal error of its own.
C17_NotInterrupted ==
    [][/\ \A i \in DOMAIN procs' :
            (i \notin DOMAIN procs /\ procs'[i].op = "pausetask"
               /\ procs'[i].replies = <<"Paused">>) =>
              LET t == procs'[i].t
              IN /\ aggs[t].task /\ ~aggs'[t].task
                 /\ aggs'[t].tick = aggs[t].tick
                 /\ \A a \in DOMAIN aggs \ {t} : aggs'[a] = aggs[a]
                 /\ \A j \in DOMAIN procs : procs'[j] = procs[j]
                 /\ UNCHANGED <<tournaments, store>>
       /\ \A a \in DOMAIN aggs :
            LET s == aggs[a].tick
                n == aggs'[a].tick
            IN /\ (s = 0 /\ n # 0) => aggs[a].task /\ aggs'[a].task
               /\ (s > 0 /\ n # s /\ ~aggs[a].task)
                    => \/ s < LastStage /\ n = s + 1
                       \/ s = LastStage /\ n = 0
                       \/ n = 0 /\ store' = store
      ]_vars

\* The iteration in flight on a stopped loop gets to its end: no iteration
\* stays suspended for ever on a loop that has been stopped.
C17_RunsToCompletion ==
    []<>(\A a \in DOMAIN aggs : aggs[a].task \/ aggs[a].tick = 0)

\* C17: pausing is cooperative: the iteration in flight when pausetask stops
\* the loop is not interrupted between two stages, it runs to its end, its
\* save included, and no iteration begins after it while the loop is stopped.
C17_CooperativePause == C17_NotInterrupted /\ C17_RunsToCompletion

\* pausetask came while the one iteration of the loop was in flight: the
\* iteration has since ended with its save (the snapshot on disk has the AFK
\* check disabled by the pause), the loop is stopped and no other iteration
\* began.
C17_Witness ==
    /\ Len(procs) = 1
    /\ procs[1].op = "pausetask" /\ procs[1].replies = <<"Paused">>
    /\ nticks = 1
    /\ LET ag == aggs[procs[1].t]
       IN /\ ag.tick = 0
          /\ ~ag.task
          /\ Len(ag.matches) = 2
          /\ ag.matches[2].afkoff
          /\ store = <<Snapshot(ag)>>

\* C18: a command that has passed only_phase finds the Tournament in the
\* registry at each of its later accesses: none ends on the KeyError of
\* self.tournaments[guild.id] read, or deleted, after the entry was removed.
C18_RegistryAccess ==
    \A i \in DOMAIN procs : "KeyError" \notin Replies(procs[i])

\* C19: a hardreset changes nothing before its question is answered, and one
\* that is refused or left unanswered changes nothing at all: the registry,
\* every Tournament, its loop included, and the disk are as they were, and
\* the command ends with that one answer.
C19_DeclinedReset ==
    [][\A i \in DOMAIN procs' :
         (procs'[i].op = "hardreset" /\ (i \in DOMAIN procs => procs[i] # procs'[i])) =>
           LET q == procs'[i]
           IN /\ i \notin DOMAIN procs => UNCHANGED <<tournaments, aggs, store>>
              /\ Replies(q) \cap {"Cancelled", "TimedOut"} # {}
                   => /\ UNCHANGED <<tournaments, aggs, store>>
                      /\ q.pc = "done"
                      /\ Len(q.replies) = 1
      ]_vars

\* A hardreset left unanswered on an ongoing tournament: the tournament is
\* registered, its loop runs and its snapshot is on disk.
C19_Witness ==
    \E i \in DOMAIN procs :
      /\ procs[i].op = "hardreset"
      /\ procs[i].replies = <<"TimedOut">>
      /\ tournaments # 0
      /\ aggs[tournaments].phase = "ongoing"
      /\ aggs[tournaments].task
      /\ store # <<>>

\* C20: runtaskonce runs the loop body once, stage after stage from the
\* first, and ends with Ticked after the last stage or with TickFailed at
\* the stage that raised; no step of it changes the registry, whether the
\* loop of any Tournament is scheduled, or where the scheduled iteration
\* stands: a stopped loop is still stopped and a running loop still running.
C20_RunOnce ==
    [][\A i \in DOMAIN procs' :
         (/\ procs'[i].op = "runtaskonce"
          /\ procs'[i].replies \notin {<<"PhaseMismatch">>, <<"NoActiveTournament">>}
          /\ (i \in DOMAIN procs => procs[i] # procs'[i])) =>
           LET q == procs'[i]
           IN /\ tournaments' = tournaments
              /\ DOMAIN aggs' = DOMAIN aggs
              /\ \A a \in DOMAIN aggs :
                   /\ aggs'[a].task = aggs[a].task
                   /\ aggs'[a].tick = aggs[a].tick
                   /\ aggs'[a].phase = aggs[a].phase
              /\ IF i \notin DOMAIN procs
                 THEN /\ q.pc = "tick" /\ q.stage = 1 /\ q.t = tournaments
                      /\ aggs' = aggs /\ store' = store
                 ELSE LET p == procs[i]
                      IN /\ p.pc = "tick"
                         /\ q.pc = "tick" => q.stage = p.stage + 1
                         /\ q.pc # "tick"
                              => /\ q.pc = "done"
                                 /\ \/ /\ q.replies = <<"Ticked">>
                                       /\ p.stage = LastStage
                                    \/ /\ q.replies = <<"TickFailed">>
                                       /\ aggs' = aggs /\ store' = store
      ]_vars

\* runtaskonce has failed on a tournament whose loop runs: the loop is still
\* scheduled and the tournament still registered.
C20_Witness ==
    \E i \in DOMAIN procs :
      /\ procs[i].op = "runtaskonce"
      /\ procs[i].replies = <<"TickFailed">>
      /\ tournaments = procs[i].t
      /\ aggs[procs[i].t].task
      /\ aggs[procs[i].t].phase = "ongoing"
====
